---- MODULE Spec2Model ----
(***************************************************************************)
(* Model of IbkrConverter (src/src/converters/ibkrConverter.ts): the       *)
(* override table loaded by the constructor, and processFileContents, the  *)
(* row loop that resolves, classifies and matches the rows of one export.  *)
(*                                                                         *)
(* Numbers are fixed point, in thousandths (2400 is 2.40).  A description  *)
(* is the record of what the code reads from the text: its first 20        *)
(* characters, whether it contains "in lieu of" (lower-cased), whether it  *)
(* contains "TAX", and the number in front of " PER SHARE" (0: no match).  *)
(***************************************************************************)
EXTENDS Integers, Sequences, FiniteSets, TLC

\* Bounds of the model.
MaxRows == 3
MaxLines == 3

VARIABLES
    overrideLines,  \* isin-overrides.txt, split in lines
    lineIdx,        \* number of lines loadIsinOverrides has read
    manualIsins,    \* this.manualIsins
    isinOverrides,  \* this.isinOverrides, a function identifier -> symbol
    layout,         \* the columns processHeaders chose: "trade" or "dividend"
    nRecords,       \* records.length
    records,        \* records[0 .. idx], the rows the loop has read so far
    idx,            \* number of rows the loop has finished
    activities,     \* result.activities
    origin,         \* history: origin[k] is the row that appended activities[k]
    lookups,        \* history: the calls of securityService.getSecurity
    successCalls,   \* history: the arguments successCallback was invoked with
    errorCalls,     \* history: the arguments errorCallback was invoked with
    pc              \* "ctor", "constructed", "parse", "loop", "await", "done"

vars == <<overrideLines, lineIdx, manualIsins, isinOverrides, layout, nRecords, records,
          idx, activities, origin, lookups, successCalls, errorCalls, pc>>

Null == "null"

Abs(x) == IF x < 0 THEN -x ELSE x

(***************************************************************************)
(* The override file.                                                      *)
(***************************************************************************)

\* A line after trim(): whether it starts with '#', and its split('=') parts,
\* each trimmed.  The empty line splits into the one part "".
Line(hash, parts) == [hash |-> hash, parts |-> parts]

LineIsins == {"X", "Y"}
LineSymbols == {"X", "Y", "K"}

LineDomain ==
    {Line(FALSE, <<i, s>>) : i \in LineIsins, s \in LineSymbols}
    \cup {Line(FALSE, <<"">>), Line(TRUE, <<"#X", "X">>), Line(FALSE, <<"X">>),
          Line(FALSE, <<"X", "K", "K">>), Line(FALSE, <<"", "K">>),
          Line(FALSE, <<"X", "">>)}

\* The tests of the loop body that skip a line.
IsSkippedLine(line) ==
    \/ line.parts = <<"">>
    \/ line.hash
    \/ Len(line.parts) # 2
    \/ line.parts[1] = ""
    \/ line.parts[2] = ""

AddManual(manual, isin) == manual \cup {isin}

SetOverride(overrides, isin, symbol) ==
    [x \in DOMAIN overrides \cup {isin} |->
        IF x = isin THEN symbol ELSE overrides[x]]

\* One iteration of the loop of loadIsinOverrides, on the pair of tables.
LoadLine(tables, line) ==
    IF IsSkippedLine(line) THEN tables
    ELSE IF line.parts[1] = line.parts[2]
         THEN [tables EXCEPT !.manual = AddManual(tables.manual, line.parts[1])]
         ELSE [tables EXCEPT !.overrides =
                   SetOverride(tables.overrides, line.parts[1], line.parts[2])]

EmptyTables == [manual |-> {}, overrides |-> <<>>]

RECURSIVE LoadIsinOverrides(_)
LoadIsinOverrides(lines) ==
    IF lines = <<>> THEN EmptyTables
    ELSE LoadLine(LoadIsinOverrides(SubSeq(lines, 1, Len(lines) - 1)),
                  lines[Len(lines)])

\* Mutant: no identifier is taken for manual.
IsManualIsin_Never(isin) == FALSE

IsManualIsin(isin) == isin \in manualIsins

GetSymbolOverride(isin) ==
    IF isin \in DOMAIN isinOverrides THEN isinOverrides[isin] ELSE Null

(***************************************************************************)
(* The rows of an export, as csv-parse hands them to the callback.         *)
(***************************************************************************)

\* The action texts of the type column, and the words each contains once
\* lower-cased (indexOf(word) > -1); "Other Fees" contains none of them.
RawActions == {"BUY", "SELL", "Dividends", "Withholding Tax", "Other Fees"}

Contains(action, word) ==
    CASE action = "BUY" -> word = "buy"
      [] action = "SELL" -> word = "sell"
      [] action = "Dividends" -> word = "dividend"
      [] action = "Withholding Tax" -> word = "tax"
      [] OTHER -> FALSE

\* cast, for the type column.
CastType(action) ==
    IF Contains(action, "buy") THEN "buy"
    ELSE IF Contains(action, "sell") THEN "sell"
    ELSE IF Contains(action, "dividend") THEN "dividend"
    ELSE IF Contains(action, "tax") THEN "dividendTax"
    ELSE action

\* cast, for the amount, quantity, price, totalAmount and commission columns.
CastNumber(x) == Abs(x)

NoMatch == 0

Description(prefix20, inLieuOf, hasTAX, perShare) ==
    [prefix20 |-> prefix20, inLieuOf |-> inLieuOf, hasTAX |-> hasTAX,
     perShare |-> perShare]

\* The empty string.
NoText == Description("", FALSE, FALSE, NoMatch)

\* "GOOGL(US02079K3059) CASH DIVIDEND USD 0.24 PER SHARE (Ordinary Dividend)"
DescDividend == Description("GOOGL(US02079K3059) ", FALSE, FALSE, 240)
\* "GOOGL(US02079K3059) CASH DIVIDEND USD 0.24 PER SHARE - US TAX"
DescTax == Description("GOOGL(US02079K3059) ", FALSE, TRUE, 240)
\* "GOOGL(US02079K3059) PAYMENT IN LIEU OF DIVIDEND (Ordinary Dividend)"
DescInLieu == Description("GOOGL(US02079K3059) ", TRUE, FALSE, NoMatch)
\* "GOOGL(US02079K3059) CASH DIVIDEND (Ordinary Dividend)"
DescNoPrice == Description("GOOGL(US02079K3059) ", FALSE, FALSE, NoMatch)
\* "GOOG(US02079K1079) CASH DIVIDEND USD 0.30 PER SHARE (Ordinary Dividend)"
DescOther == Description("GOOG(US02079K1079) C", FALSE, FALSE, 300)

Descriptions == {DescDividend, DescTax, DescInLieu, DescNoPrice, DescOther}

Dates == {"20230105", "20230106"}
Currencies == {"USD", "GBX"}

\* Identifiers: none, M marked manual, B marked manual and given a replacement
\* key, R given the replacement key K, N in no table, E that the lookup does
\* not find, F on which the lookup fails.
Isins == {"", "M", "B", "R", "N", "E", "F"}

\* The override file the converter was constructed with.
OverrideFile ==
    <<Line(FALSE, <<"M", "M">>), Line(FALSE, <<"B", "B">>),
      Line(FALSE, <<"B", "K">>), Line(FALSE, <<"R", "K">>)>>

\* A row of either layout; a column its layout does not have is undefined,
\* which reads as "" (falsy), NoText or 0 below.
DividendRow(action, date, isin, description, amount, currency) ==
    [type |-> CastType(action), date |-> date, isin |-> isin,
     description |-> description, amount |-> CastNumber(amount),
     currency |-> currency,
     quantity |-> 0, price |-> 0, tradeCurrency |-> "", commission |-> 0]

TradeRow(action, date, isin, quantity, price, tradeCurrency, commission) ==
    [type |-> CastType(action), date |-> date, isin |-> isin,
     description |-> NoText, amount |-> 0, currency |-> "",
     quantity |-> CastNumber(quantity), price |-> CastNumber(price),
     tradeCurrency |-> tradeCurrency, commission |-> CastNumber(commission)]

\* The rows of a dividend export: the dividend and the tax line of one payment
\* with every description, and each of the two with one other column varied.
PlainDividend == DividendRow("Dividends", "20230105", "N", DescDividend, 2400, "USD")
PlainTax == DividendRow("Withholding Tax", "20230105", "N", DescTax, -360, "USD")

DividendRows ==
    {DividendRow(a, "20230105", "N", d, IF a = "Dividends" THEN 2400 ELSE -360, "USD") :
        a \in {"Dividends", "Withholding Tax"}, d \in Descriptions}
    \cup {[r EXCEPT !.date = "20230106"] : r \in {PlainDividend, PlainTax}}
    \cup {[r EXCEPT !.currency = "GBX"] : r \in {PlainDividend, PlainTax}}
    \cup {[r EXCEPT !.isin = i] : r \in {PlainDividend, PlainTax}, i \in {"M", "R"}}
    \cup {[PlainDividend EXCEPT !.isin = i] : i \in {"", "B", "E", "F"}}
    \cup {[PlainDividend EXCEPT !.amount = 1000]}
    \cup {DividendRow("Other Fees", "20230105", "N", DescDividend, 2400, "USD")}

\* The rows of a trade export.
PlainTrade == TradeRow("BUY", "20230105", "N", 10000, 150000, "USD", -1000)

TradeRows ==
    {[PlainTrade EXCEPT !.isin = i] : i \in Isins}
    \cup {TradeRow("SELL", "20230106", "N", -5000, 160000, "GBX", -2000)}
    \cup {TradeRow("Other Fees", "20230105", "N", 10000, 150000, "USD", -1000)}

Rows(columns) == IF columns = "trade" THEN TradeRows ELSE DividendRows

(***************************************************************************)
(* processFileContents: the helpers of the row loop.                       *)
(***************************************************************************)

\* The header line has more than 6 columns: a trade export.
ProcessHeaders(columns) == IF columns > 6 THEN "trade" ELSE "dividend"

HeaderColumns == {6, 7, 9}

\* Mutant: no row is ignored.
IsIgnoredRecord_Never(record) == FALSE

IsIgnoredRecord(record) == record.isin = ""

\* The currency of the row, GBX rewritten to GBp.
Currency(record) ==
    LET currency == IF record.currency # "" THEN record.currency
                    ELSE record.tradeCurrency
    IN  IF currency = "GBX" THEN "GBp" ELSE currency

ManualSecurity(record, currency) ==
    [symbol |-> "GF_" \o record.isin,
     currency |-> IF currency # "" THEN currency ELSE "USD",
     name |-> record.isin]

\* Mutant: the lookup is always made with the identifier of the row.
LookupCall_IgnoresOverride(record, currency) ==
    [isin |-> record.isin, symbol |-> Null, currency |-> currency]

\* The arguments of getSecurity for a row that is not manual.
LookupCall(record, currency) ==
    LET symbolOverride == GetSymbolOverride(record.isin)
    IN  IF symbolOverride # Null
        THEN [isin |-> Null, symbol |-> symbolOverride, currency |-> currency]
        ELSE [isin |-> record.isin, symbol |-> Null, currency |-> currency]

\* The collaborator: it fails on F, finds nothing for E, and finds the same
\* security for the identifier N and for the replacement key K.
SecurityService(call) ==
    LET key == IF call.isin # Null THEN call.isin ELSE call.symbol
    IN  CASE key = "F" -> [kind |-> "throw"]
          [] key = "E" -> [kind |-> "empty"]
          [] key \in {"N", "K"} ->
                [kind |-> "found",
                 security |-> [symbol |-> "GOOGL", currency |-> "USD",
                               name |-> "Alphabet Inc."]]
          [] OTHER ->
                [kind |-> "found",
                 security |-> [symbol |-> key \o ".DE", currency |-> "EUR",
                               name |-> key]]

\* dayjs(date).format("YYYY-MM-DDTHH:mm:ssZ")
FormatDate(date) ==
    CASE date = "20230105" -> "2023-01-05T00:00:00+00:00"
      [] date = "20230106" -> "2023-01-06T00:00:00+00:00"
      [] OTHER -> "Invalid Date"

\* parseFloat((amount / price).toFixed(3))
ToFixed3(amount, price) == (2 * 1000 * amount + price) \div (2 * price)

\* GhostfolioOrderType[type]
OrderType(type) ==
    IF type \in {"buy", "sell", "dividend"} THEN type ELSE "undefined"

Activity(comment, fee, quantity, type, unitPrice, currency, dataSource, date, symbol) ==
    [comment |-> comment, fee |-> fee, quantity |-> quantity, type |-> type,
     unitPrice |-> unitPrice, currency |-> currency, dataSource |-> dataSource,
     date |-> date, symbol |-> symbol]

\* match(...) yields null and [0] of it throws.
ThrowsTypeError(record) ==
    /\ record.currency # ""
    /\ ~record.description.inLieuOf
    /\ record.description.perShare = NoMatch

\* Mutant: the descriptions are not compared.
FindExactDividendMatch_NoPrefix(dividendRecord, symbol, acts) ==
    LET hits == {k \in 1..Len(acts) :
                    /\ acts[k].symbol = symbol
                    /\ acts[k].currency = dividendRecord.currency
                    /\ acts[k].date = FormatDate(dividendRecord.date)}
    IN  IF hits = {} THEN 0 ELSE CHOOSE k \in hits : \A j \in hits : k <= j

\* The position of the first Activity the row matches, 0 when there is none.
FindExactDividendMatch(dividendRecord, symbol, acts) ==
    LET hits == {k \in 1..Len(acts) :
                    /\ acts[k].symbol = symbol
                    /\ acts[k].currency = dividendRecord.currency
                    /\ acts[k].comment.prefix20 = dividendRecord.description.prefix20
                    /\ acts[k].date = FormatDate(dividendRecord.date)}
    IN  IF hits = {} THEN 0 ELSE CHOOSE k \in hits : \A j \in hits : k <= j

\* fees, quantity, price, type and comment of a row that has a currency column.
DividendEvent(record) ==
    IF record.description.inLieuOf
    THEN [fees |-> 0, quantity |-> record.amount, price |-> 0,
          type |-> "dividend", comment |-> record.description, matched |-> FALSE]
    ELSE LET price == record.description.perShare
         IN  [fees |-> IF record.type = "dividendTax" THEN Abs(record.amount) ELSE 0,
              quantity |-> IF record.type = "dividendTax" THEN 0
                           ELSE ToFixed3(record.amount, price),
              price |-> price, type |-> "dividend",
              comment |-> record.description, matched |-> TRUE]

\* The same of a row that has none.
TradeEvent(record) ==
    [fees |-> record.commission, quantity |-> record.quantity,
     price |-> record.price, type |-> OrderType(record.type),
     comment |-> NoText, matched |-> FALSE]

\* Mutant: the matched Activity is overwritten whatever its comment.
CompleteExisting_Overwrite(acts, k, event) ==
    [acts EXCEPT ![k].comment = event.comment,
                 ![k].unitPrice = event.price,
                 ![k].quantity = event.quantity]

\* The matched Activity is completed.
CompleteExisting(acts, k, event) ==
    IF acts[k].comment.hasTAX
    THEN [acts EXCEPT ![k].comment = event.comment,
                      ![k].unitPrice = event.price,
                      ![k].quantity = event.quantity]
    ELSE [acts EXCEPT ![k].fee = event.fees]

\* Mutant: the new Activity is put in front of the list (unshift for push).
Emit_Unshift(record, currency, security, dataSource, acts) ==
    LET event == IF record.currency # "" THEN DividendEvent(record)
                 ELSE TradeEvent(record)
        k == IF event.matched
             THEN FindExactDividendMatch(record, security.symbol, acts) ELSE 0
    IN  IF k # 0 THEN CompleteExisting(acts, k, event)
        ELSE <<Activity(event.comment, event.fees, event.quantity,
                        event.type, event.price, currency, dataSource,
                        FormatDate(record.date), security.symbol)>> \o acts

\* Mutant: the match is looked for on every row, trades included, with the
\* currency of the Activity to be.
Emit_MatchEveryRow(record, currency, security, dataSource, acts) ==
    LET event == IF record.currency # "" THEN DividendEvent(record)
                 ELSE TradeEvent(record)
        k == FindExactDividendMatch([record EXCEPT !.currency = currency],
                                    security.symbol, acts)
    IN  IF k # 0 THEN CompleteExisting(acts, k, event)
        ELSE Append(acts, Activity(event.comment, event.fees, event.quantity,
                                   event.type, event.price, currency, dataSource,
                                   FormatDate(record.date), security.symbol))

\* result.activities after a resolved row that does not throw.
Emit(record, currency, security, dataSource, acts) ==
    LET event == IF record.currency # "" THEN DividendEvent(record)
                 ELSE TradeEvent(record)
        k == IF event.matched
             THEN FindExactDividendMatch(record, security.symbol, acts) ELSE 0
    IN  IF k # 0 THEN CompleteExisting(acts, k, event)
        ELSE Append(acts, Activity(event.comment, event.fees, event.quantity,
                                   event.type, event.price, currency, dataSource,
                                   FormatDate(record.date), security.symbol))

\* Mutant: a row with no price is skipped and the loop goes on.
AfterResolve_SkipsRow(record, security, dataSource, acts) ==
    [status |-> "ok",
     activities |-> IF ThrowsTypeError(record) THEN acts
                    ELSE Emit(record, Currency(record), security, dataSource,
                              acts)]

\* The iteration from the resolved security on: the missing price throws.
AfterResolve(record, security, dataSource, acts) ==
    IF ThrowsTypeError(record)
    THEN [status |-> "TypeError", activities |-> acts]
    ELSE [status |-> "ok",
          activities |-> Emit(record, Currency(record), security, dataSource, acts)]

\* One whole iteration of the loop on the list acts.
RowOutcome(record, acts) ==
    IF IsIgnoredRecord(record) THEN [status |-> "ok", activities |-> acts]
    ELSE IF IsManualIsin(record.isin)
    THEN AfterResolve(record, ManualSecurity(record, Currency(record)), "MANUAL", acts)
    ELSE LET answer == SecurityService(LookupCall(record, Currency(record)))
         IN  CASE answer.kind = "throw" ->
                    [status |-> "LookupError", activities |-> acts]
               [] answer.kind = "empty" -> [status |-> "ok", activities |-> acts]
               [] OTHER -> AfterResolve(record, answer.security, "YAHOO", acts)

\* The loop on rows: it stops at the first row that throws.
RECURSIVE ProcessRows(_)
ProcessRows(rows) ==
    IF rows = <<>> THEN [status |-> "ok", activities |-> <<>>]
    ELSE LET before == ProcessRows(SubSeq(rows, 1, Len(rows) - 1))
         IN  IF before.status # "ok" THEN before
             ELSE RowOutcome(rows[Len(rows)], before.activities)

(***************************************************************************)
(* The constructor: loadIsinOverrides, one line of the file a step.        *)
(***************************************************************************)

RECURSIVE SeqsUpTo(_, _)
SeqsUpTo(S, n) ==
    IF n = 0 THEN {<<>>}
    ELSE LET shorter == SeqsUpTo(S, n - 1)
         IN  shorter \cup {Append(q, x) : q \in shorter, x \in S}

NotStarted ==
    /\ layout = "none"
    /\ nRecords = 0
    /\ records = <<>>
    /\ idx = 0
    /\ activities = <<>>
    /\ origin = <<>>
    /\ lookups = <<>>
    /\ successCalls = <<>>
    /\ errorCalls = <<>>

InitLoad ==
    /\ overrideLines \in SeqsUpTo(LineDomain, MaxLines)
    /\ lineIdx = 0
    /\ manualIsins = {}
    /\ isinOverrides = <<>>
    /\ pc = "ctor"
    /\ NotStarted

ReadLine ==
    /\ pc = "ctor"
    /\ lineIdx < Len(overrideLines)
    /\ LET tables == LoadLine([manual |-> manualIsins, overrides |-> isinOverrides],
                              overrideLines[lineIdx + 1])
       IN  /\ manualIsins' = tables.manual
           /\ isinOverrides' = tables.overrides
    /\ lineIdx' = lineIdx + 1
    /\ UNCHANGED <<overrideLines, layout, nRecords, records, idx, activities,
                   origin, lookups, successCalls, errorCalls, pc>>

Constructed ==
    /\ pc = "ctor"
    /\ lineIdx = Len(overrideLines)
    /\ pc' = "constructed"
    /\ UNCHANGED <<overrideLines, lineIdx, manualIsins, isinOverrides, layout,
                   nRecords, records, idx, activities, origin, lookups,
                   successCalls, errorCalls>>

NextLoad == ReadLine \/ Constructed

SpecLoad == InitLoad /\ [][NextLoad]_vars

(***************************************************************************)
(* processFileContents on a converter constructed with OverrideFile.       *)
(***************************************************************************)

Init ==
    /\ overrideLines = OverrideFile
    /\ lineIdx = Len(OverrideFile)
    /\ manualIsins = LoadIsinOverrides(OverrideFile).manual
    /\ isinOverrides = LoadIsinOverrides(OverrideFile).overrides
    /\ pc = "parse"
    /\ NotStarted

\* The callback of parse: the parse failed or gave no row, or the loop starts.
ParseCallback ==
    /\ pc = "parse"
    /\ \E err \in BOOLEAN, n \in 0..MaxRows, columns \in HeaderColumns :
          /\ layout' = ProcessHeaders(columns)
          /\ IF err \/ n = 0
             THEN /\ errorCalls' = Append(errorCalls, "ParseError")
                  /\ nRecords' = 0
                  /\ pc' = "done"
             ELSE /\ nRecords' = n
                  /\ pc' = "loop"
                  /\ UNCHANGED errorCalls
    /\ UNCHANGED <<overrideLines, lineIdx, manualIsins, isinOverrides, records,
                   idx, activities, origin, lookups, successCalls>>

\* The outer catch: progress.stop() and errorCallback(error).
CatchError(error) ==
    /\ errorCalls' = Append(errorCalls, error)
    /\ pc' = "done"
    /\ UNCHANGED <<idx, activities, origin, successCalls>>

\* Mutant: the error of the lookup is swallowed and the row skipped.
CatchLookupError_Swallow(error) ==
    /\ idx' = idx + 1
    /\ pc' = "loop"
    /\ UNCHANGED <<activities, origin, successCalls, errorCalls>>

\* Mutant: errorCallback(err) without the return; the loop goes on.
CatchLookupError_NoReturn(error) ==
    /\ errorCalls' = Append(errorCalls, error)
    /\ idx' = idx + 1
    /\ pc' = "loop"
    /\ UNCHANGED <<activities, origin, successCalls>>

\* The catch around the lookup: logQueryError and return errorCallback(err).
CatchLookupError(error) ==
    /\ errorCalls' = Append(errorCalls, error)
    /\ pc' = "done"
    /\ UNCHANGED <<idx, activities, origin, successCalls>>

\* Mutant: break for continue.
Continue_Break ==
    /\ idx' = nRecords
    /\ pc' = "loop"
    /\ UNCHANGED <<activities, origin, successCalls, errorCalls>>

\* continue: the loop goes on with the next row.
Continue ==
    /\ idx' = idx + 1
    /\ pc' = "loop"
    /\ UNCHANGED <<activities, origin, successCalls, errorCalls>>

\* The rest of the iteration once the security of the row is known.
Resolved(record, security, dataSource) ==
    LET outcome == AfterResolve(record, security, dataSource, activities)
    IN
    IF outcome.status # "ok" THEN CatchError(outcome.status)
    ELSE /\ activities' = outcome.activities
         /\ origin' = IF Len(activities') > Len(activities)
                      THEN Append(origin, idx + 1) ELSE origin
         /\ idx' = idx + 1
         /\ pc' = "loop"
         /\ UNCHANGED <<successCalls, errorCalls>>

\* Mutant: getSecurity is called without await; the loop goes on to the next
\* row while the lookup is in flight.
RowStart_NoAwait ==
    /\ pc = "loop"
    /\ idx < nRecords
    /\ \E record \in Rows(layout) :
          /\ records' = Append(records, record)
          /\ IF IsIgnoredRecord(record)
             THEN Continue /\ UNCHANGED lookups
             ELSE IF IsManualIsin(record.isin)
             THEN /\ Resolved(record, ManualSecurity(record, Currency(record)),
                              "MANUAL")
                  /\ UNCHANGED lookups
             ELSE /\ lookups' = Append(lookups,
                        [row |-> idx + 1,
                         args |-> LookupCall(record, Currency(record)),
                         answer |-> [kind |-> "pending"]])
                  /\ Continue
    /\ UNCHANGED <<overrideLines, lineIdx, manualIsins, isinOverrides, layout,
                   nRecords>>

\* An iteration up to its end, or up to the await of getSecurity.
RowStart ==
    /\ pc = "loop"
    /\ idx < nRecords
    /\ \E record \in Rows(layout) :
          /\ records' = Append(records, record)
          /\ IF IsIgnoredRecord(record)
             THEN Continue /\ UNCHANGED lookups
             ELSE IF IsManualIsin(record.isin)
             THEN /\ Resolved(record, ManualSecurity(record, Currency(record)),
                              "MANUAL")
                  /\ UNCHANGED lookups
             ELSE /\ lookups' = Append(lookups,
                        [row |-> idx + 1,
                         args |-> LookupCall(record, Currency(record)),
                         answer |-> [kind |-> "pending"]])
                  /\ pc' = "await"
                  /\ UNCHANGED <<idx, activities, origin, successCalls, errorCalls>>
    /\ UNCHANGED <<overrideLines, lineIdx, manualIsins, isinOverrides, layout,
                   nRecords>>

\* getSecurity settles and the iteration runs to its end.
LookupReturn ==
    /\ pc = "await"
    /\ LET answer == SecurityService(lookups[Len(lookups)].args)
       IN  /\ lookups' = [lookups EXCEPT ![Len(lookups)].answer = answer]
           /\ CASE answer.kind = "throw" -> CatchLookupError("LookupError")
                [] answer.kind = "empty" -> Continue
                [] OTHER -> Resolved(records[idx + 1], answer.security, "YAHOO")
    /\ UNCHANGED <<overrideLines, lineIdx, manualIsins, isinOverrides, layout,
                   nRecords, records>>

\* The loop is over: progress.stop() and successCallback(result).  The two
\* callbacks are the caller's and are taken to return normally.
Finish ==
    /\ pc = "loop"
    /\ idx = nRecords
    /\ successCalls' = Append(successCalls, activities)
    /\ pc' = "done"
    /\ UNCHANGED <<overrideLines, lineIdx, manualIsins, isinOverrides, layout,
                   nRecords, records, idx, activities, origin, lookups,
                   errorCalls>>

Next == ParseCallback \/ RowStart \/ LookupReturn \/ Finish

Spec == Init /\ [][Next]_vars

(***************************************************************************)
(* What the properties below speak of.                                     *)
(***************************************************************************)

\* The rows the loop has finished or thrown on.
Processed == IF pc = "await" THEN SubSeq(records, 1, idx) ELSE records

\* The state of the run, as ProcessRows gives it.
Current ==
    [status |-> IF errorCalls # <<>> THEN errorCalls[1] ELSE "ok",
     activities |-> activities]

Remove(rows, i) == SubSeq(rows, 1, i - 1) \o SubSeq(rows, i + 1, Len(rows))

Succeeded == pc = "done" /\ successCalls # <<>>

LoopAgrees == pc \in {"loop", "await", "done"} /\ layout # "none" /\ nRecords > 0
                  => ProcessRows(Processed) = Current

\* The symbol row i resolved to, "" when it resolved to none.
ResolvedSymbol(i) ==
    IF records[i].isin = "" THEN ""
    ELSE IF records[i].isin \in manualIsins THEN "GF_" \o records[i].isin
    ELSE IF \E k \in 1..Len(lookups) :
                lookups[k].row = i /\ lookups[k].answer.kind = "found"
    THEN LET k == CHOOSE k \in 1..Len(lookups) : lookups[k].row = i
         IN  lookups[k].answer.security.symbol
    ELSE ""

IsTaxRow(r) ==
    r.currency # "" /\ r.type = "dividendTax" /\ ~r.description.inLieuOf

IsDividendRow(r) ==
    r.currency # "" /\ r.type = "dividend" /\ ~r.description.inLieuOf

HasPrice(r) == r.description.perShare # NoMatch

\* Rows i and j describe the same payment.
SamePayment(i, j) ==
    /\ ResolvedSymbol(i) # ""
    /\ ResolvedSymbol(i) = ResolvedSymbol(j)
    /\ records[i].currency = records[j].currency
    /\ records[i].date = records[j].date
    /\ records[i].description.prefix20 = records[j].description.prefix20

\* A finished run on two rows, a tax row and its dividend row, in the order
\* (t, d) of their positions.
PairRun(t, d) ==
    /\ pc = "done"
    /\ nRecords = 2
    /\ Len(records) = 2
    /\ IsTaxRow(records[t]) /\ HasPrice(records[t])
    /\ IsDividendRow(records[d]) /\ HasPrice(records[d])
    /\ SamePayment(t, d)

\* The one Activity of a matched pair: the dividend's quantity and price, the
\* tax's amount as fee.
PairExport(t, d) ==
    /\ Len(successCalls) = 1
    /\ errorCalls = <<>>
    /\ Len(successCalls[1]) = 1
    /\ successCalls[1][1].quantity * records[d].description.perShare
            \in (1000 * records[d].amount - records[d].description.perShare)
                  .. (1000 * records[d].amount + records[d].description.perShare)
    /\ successCalls[1][1].unitPrice = records[d].description.perShare
    /\ successCalls[1][1].fee = records[t].amount

\* C1: matching symmetry.  A tax row and its ordinary-dividend row (same
\* resolved symbol, currency, date and first 20 description characters), in
\* either order, give exactly one Activity with the dividend's quantity and
\* unitPrice and the tax's amount as fee, whatever the two descriptions say.
C1_MatchingSymmetry ==
    \A t, d \in 1..2 : t # d /\ PairRun(t, d) => PairExport(t, d)

\* C2: a dividend or tax row with a per-share price that finds in the list an
\* Activity produced from a row of the same resolved symbol, currency, date
\* and first 20 description characters is consumed into it and appends
\* nothing, whatever the currency (GBX included).
C2_MatchedRowIsConsumed ==
    \A j \in 1..idx : \A k \in 1..Len(origin) :
        /\ origin[k] < j
        /\ IsTaxRow(records[j]) \/ IsDividendRow(records[j])
        /\ HasPrice(records[j])
        /\ SamePayment(origin[k], j)
        => \A m \in 1..Len(origin) : origin[m] # j

\* Lemma: a matched row is consumed when its currency is not GBX.
MatchedRowIsConsumedExceptGBX ==
    \A j \in 1..idx : \A k \in 1..Len(origin) :
        /\ origin[k] < j
        /\ IsTaxRow(records[j]) \/ IsDividendRow(records[j])
        /\ HasPrice(records[j])
        /\ records[j].currency # "GBX"
        /\ SamePayment(origin[k], j)
        => \A m \in 1..Len(origin) : origin[m] # j

\* Lemma: matching is symmetric for the pairs in which the description of the
\* tax row, and only it, contains TAX and the currency is not GBX.
MatchingSymmetryWellMarked ==
    \A t, d \in 1..2 :
        /\ t # d
        /\ PairRun(t, d)
        /\ records[t].description.hasTAX
        /\ ~records[d].description.hasTAX
        /\ records[t].currency # "GBX"
        => PairExport(t, d)

\* The override entry of x, as processFileContents reads the two tables:
\* isManualIsin first, then getSymbolOverride.
OverrideEntry(x) ==
    IF IsManualIsin(x) THEN [kind |-> "Manual", key |-> Null]
    ELSE IF GetSymbolOverride(x) # Null
    THEN [kind |-> "Replace", key |-> GetSymbolOverride(x)]
    ELSE [kind |-> "None", key |-> Null]

\* The entry the last well-formed line for x among lines gives.
RECURSIVE LastLineEntry(_, _)
LastLineEntry(x, lines) ==
    IF lines = <<>> THEN [kind |-> "None", key |-> Null]
    ELSE LET line == lines[Len(lines)]
         IN  IF ~line.hash /\ Len(line.parts) = 2 /\ line.parts[1] = x
                 /\ line.parts[2] # ""
             THEN IF line.parts[2] = x THEN [kind |-> "Manual", key |-> Null]
                  ELSE [kind |-> "Replace", key |-> line.parts[2]]
             ELSE LastLineEntry(x, SubSeq(lines, 1, Len(lines) - 1))

\* C3: once loadIsinOverrides has read the file, every identifier has at most
\* one override entry, Manual or Replace and never both, and it is the one of
\* the last well-formed line for the identifier.
C3_LastLineWins ==
    pc = "constructed" =>
        \A x \in LineIsins :
            /\ ~(x \in manualIsins /\ x \in DOMAIN isinOverrides)
            /\ OverrideEntry(x) = LastLineEntry(x, overrideLines)

\* Lemma: the tables hold what the lines gave, manual winning over a
\* replacement key wherever the two were given.
ManualWins ==
    \A x \in LineIsins :
        /\ x \in manualIsins <=>
              \E k \in 1..lineIdx : ~IsSkippedLine(overrideLines[k])
                    /\ overrideLines[k].parts = <<x, x>>
        /\ x \in manualIsins => OverrideEntry(x).kind = "Manual"

\* C4: the lookup is never invoked for a row whose identifier is marked
\* manual, and an Activity appended for such a row has symbol GF_<identifier>
\* and dataSource MANUAL; an Activity appended for any other row has
\* dataSource YAHOO and the symbol the collaborator returned for the row.
C4_ManualNeverLooksUp ==
    /\ \A k \in 1..Len(lookups) : records[lookups[k].row].isin \notin manualIsins
    /\ \A k \in 1..Len(activities) :
          IF records[origin[k]].isin \in manualIsins
          THEN /\ activities[k].symbol = "GF_" \o records[origin[k]].isin
               /\ activities[k].dataSource = "MANUAL"
          ELSE /\ activities[k].dataSource = "YAHOO"
               /\ \E j \in 1..Len(lookups) :
                     /\ lookups[j].row = origin[k]
                     /\ lookups[j].answer.kind = "found"
                     /\ activities[k].symbol = lookups[j].answer.security.symbol

\* A finished run with an Activity of a manual identifier that also has a
\* replacement key, and an Activity of a looked-up identifier.
C4_Witness ==
    /\ Succeeded
    /\ \E k \in 1..Len(activities) : records[origin[k]].isin = "B"
    /\ \E k \in 1..Len(activities) : records[origin[k]].isin = "R"

\* C5: when the lookup of row i raises, the run is over at once: the error
\* callback has received that error, the success callback is not invoked, and
\* no row after i has been read, resolved, matched or appended; the list is
\* what the rows before i made it.
C5_LookupErrorAborts ==
    \A k \in 1..Len(lookups) :
        lookups[k].answer.kind = "throw" =>
            /\ k = Len(lookups)
            /\ pc = "done"
            /\ errorCalls = <<"LookupError">>
            /\ successCalls = <<>>
            /\ Len(records) = lookups[k].row
            /\ idx = lookups[k].row - 1
            /\ \A m \in 1..Len(origin) : origin[m] < lookups[k].row
            /\ activities = ProcessRows(SubSeq(records, 1, idx)).activities

\* The lookup of the second row raised after the first row had appended an
\* Activity, with a third row still to come.
C5_Witness ==
    /\ nRecords = 3
    /\ Len(activities) = 1
    /\ lookups # <<>>
    /\ lookups[Len(lookups)].row = 2
    /\ lookups[Len(lookups)].answer.kind = "throw"

\* Row j is a fatal one: its lookup raised, or it was resolved and its
\* description has no per-share price where one is needed.
Fatal(j) ==
    \/ \E k \in 1..Len(lookups) :
          lookups[k].row = j /\ lookups[k].answer.kind = "throw"
    \/ /\ ResolvedSymbol(j) # ""
       /\ records[j].currency # ""
       /\ ~records[j].description.inLieuOf
       /\ ~HasPrice(records[j])

EmptyLookup(i) ==
    \E k \in 1..Len(lookups) :
        lookups[k].row = i /\ lookups[k].answer.kind = "empty"

C8_IgnoredRowDropped ==
    /\ \A i \in 1..Len(Processed) :
          records[i].isin = "" =>
              /\ \A k \in 1..Len(lookups) : lookups[k].row # i
              /\ \A m \in 1..Len(origin) : origin[m] # i
              /\ idx >= i
              /\ ProcessRows(Remove(Processed, i)) = Current
    /\ (/\ pc = "done"
        /\ nRecords > 0
        /\ \A i \in 1..Len(records) : records[i].isin = "")
          => /\ successCalls = << <<>> >>
             /\ errorCalls = <<>>
             /\ Len(records) = nRecords

\* A finished run of three rows with no identifier.
C8_Witness ==
    /\ Succeeded
    /\ nRecords = 3
    /\ \A i \in 1..3 : records[i].isin = ""

Increasing(q) == \A a, b \in 1..Len(q) : a < b => q[a] < q[b]

\* What a merge never changes of an Activity.
SameIdentity(a, b) ==
    /\ a.symbol = b.symbol
    /\ a.currency = b.currency
    /\ a.date = b.date
    /\ a.dataSource = b.dataSource
    /\ a.type = b.type

\* A step keeps every Activity in its place and adds at most one, at the end,
\* for the row at hand; a step that adds none changes at most one Activity.
AppendOnlyStep ==
    /\ Len(activities') \in {Len(activities), Len(activities) + 1}
    /\ \A k \in 1..Len(activities) :
          /\ SameIdentity(activities'[k], activities[k])
          /\ origin'[k] = origin[k]
    /\ Len(activities') > Len(activities) =>
          /\ SubSeq(activities', 1, Len(activities)) = activities
          /\ origin'[Len(activities')] = Len(records')
    /\ Len(activities') = Len(activities) =>
          Cardinality({k \in 1..Len(activities) :
                          activities'[k] # activities[k]}) <= 1

\* Every Activity stands for the row that appended it, and the rows that
\* appended the Activities come in input order.
InInputOrder ==
    /\ Len(origin) = Len(activities)
    /\ Increasing(origin)
    /\ \A k \in 1..Len(activities) :
          /\ origin[k] \in 1..Len(records)
          /\ activities[k].date = FormatDate(records[origin[k]].date)
          /\ activities[k].symbol = ResolvedSymbol(origin[k])
          /\ activities[k].comment.prefix20 =
                 records[origin[k]].description.prefix20

\* C9: the list is in the input order of the first row that contributed to
\* each Activity.  Activities are only appended at the end, none is removed
\* or moved, a merged pair stays at the place of its first-seen member, and
\* of two Activities the earlier one came from the earlier row.
C9_InputOrder == [][AppendOnlyStep]_vars /\ []InInputOrder

\* A finished run of three rows: the third was merged into the Activity of
\* the first, which stays in front of the Activity of the second.
C9_Witness ==
    /\ Succeeded
    /\ nRecords = 3
    /\ origin = <<1, 2>>
    /\ IsTaxRow(records[3])
    /\ activities[1].fee = records[3].amount
    /\ activities[1].quantity > 0

\* The rows of a finished run that were dropped for a missing identifier.
DroppedRows == {i \in 1..Len(records) : records[i].isin = ""}

\* The rows of a finished run whose lookup found nothing.
UnresolvedRows == {i \in 1..Len(records) : EmptyLookup(i)}

\* C10, as stated: in a trade export that completes, the number of
\* Activities is the number of rows minus the rows dropped for a missing
\* identifier.
C10_OnePerTradeRow ==
    Succeeded /\ layout = "trade" =>
        Len(successCalls[1]) = nRecords - Cardinality(DroppedRows)

\* C10, amended: in a trade export that completes, every trade row with an
\* identifier that the lookup resolves emits exactly one Activity, its own:
\* the number of Activities is the number of rows minus the rows dropped for
\* a missing identifier and the rows skipped because the lookup found
\* nothing, and no row is merged into the Activity of another.
C10_OnePerResolvedTradeRow ==
    Succeeded /\ layout = "trade" =>
        /\ Len(successCalls[1]) =
              nRecords - Cardinality(DroppedRows) - Cardinality(UnresolvedRows)
        /\ \A i \in 1..nRecords :
              Cardinality({k \in 1..Len(origin) : origin[k] = i}) =
                  IF i \in DroppedRows \cup UnresolvedRows THEN 0 ELSE 1
        /\ \A k \in 1..Len(successCalls[1]) :
              /\ successCalls[1][k].fee = records[origin[k]].commission
              /\ successCalls[1][k].quantity = records[origin[k]].quantity
              /\ successCalls[1][k].unitPrice = records[origin[k]].price
              /\ successCalls[1][k].comment = NoText

\* A finished trade export of three rows: one dropped, one not found, one that
\* emitted its Activity.
C10_Witness ==
    /\ Succeeded
    /\ layout = "trade"
    /\ nRecords = 3
    /\ Cardinality(DroppedRows) = 1
    /\ Cardinality(UnresolvedRows) = 1
    /\ Len(successCalls[1]) = 1

(***************************************************************************)
(* Merges.                                                                 *)
(***************************************************************************)

\* The row a step finishes (the step moves idx), and the Activities of the
\* list that the step changes.
RowAtHand == records'[idx + 1]

Changed == {k \in 1..Len(activities) : activities'[k] # activities[k]}

\* The place in the list of the Activity that holds the finished row i: the
\* one it appended, else the one it was merged into; 0 when it has none.
Holder(i) ==
    IF \E k \in 1..Len(origin) : origin[k] = i
    THEN CHOOSE k \in 1..Len(origin) : origin[k] = i
    ELSE IF ResolvedSymbol(i) = "" \/ records[i].currency = ""
            \/ records[i].description.inLieuOf
    THEN 0
    ELSE FindExactDividendMatch(records[i], ResolvedSymbol(i),
             ProcessRows(SubSeq(records, 1, i - 1)).activities)

\* Rows i and j are dividend-family rows of the same symbol, currency and
\* date whose descriptions differ within the first 20 characters.
DifferInPrefix(i, j) ==
    /\ records[i].currency # ""
    /\ ResolvedSymbol(i) # ""
    /\ ResolvedSymbol(i) = ResolvedSymbol(j)
    /\ records[i].currency = records[j].currency
    /\ records[i].date = records[j].date
    /\ records[i].description.prefix20 # records[j].description.prefix20

\* A row changes no Activity of a row whose description starts otherwise.
NoFalseMergeStep ==
    idx' = idx + 1 =>
        \A k \in Changed :
            /\ records[origin[k]].description.prefix20 =
                   RowAtHand.description.prefix20
            /\ activities[k].comment.prefix20 = RowAtHand.description.prefix20

\* Two such rows are held by two Activities, each by one that starts as it
\* does.
OwnActivities ==
    \A i, j \in 1..idx :
        DifferInPrefix(i, j) =>
            /\ Holder(i) # 0
            /\ Holder(j) # 0
            /\ Holder(i) # Holder(j)
            /\ activities[Holder(i)].comment.prefix20 =
                   records[i].description.prefix20
            /\ records[origin[Holder(i)]].description.prefix20 =
                   records[i].description.prefix20

C12_OneRowAtATime ==
    /\ \A k \in 1..Len(lookups) :
          lookups[k].answer.kind = "pending" =>
              k = Len(lookups) /\ pc = "await"
    /\ pc = "await" =>
          /\ lookups # <<>>
          /\ lookups[Len(lookups)].answer.kind = "pending"
          /\ lookups[Len(lookups)].row = idx + 1
          /\ Len(records) = idx + 1
    /\ \A a, b \in 1..Len(lookups) : a < b => lookups[a].row < lookups[b].row
    /\ \A k \in 1..Len(lookups) : lookups[k].row <= Len(records)
    /\ Len(records) \in {idx, idx + 1}
    /\ Len(records) = idx + 1 => pc \in {"await", "done"}
    /\ \A m \in 1..Len(origin) : origin[m] <= idx
    /\ pc \in {"loop", "await"} =>
          /\ errorCalls = <<>>
          /\ ProcessRows(SubSeq(records, 1, idx)) =
                 [status |-> "ok", activities |-> activities]

\* The lookup of the second row is in flight; the first row was looked up and
\* has appended its Activity.
C12_Witness ==
    /\ pc = "await"
    /\ idx = 1
    /\ Len(lookups) = 2
    /\ Len(activities) = 1

\* The currency column of a row's layout, as written in the file.
RowCurrency(i) ==
    IF layout = "dividend" THEN records[i].currency
    ELSE records[i].tradeCurrency

LookupsOf(i) == {k \in 1..Len(lookups) : lookups[k].row = i}

\* C13: every row the loop has reached whose identifier is not empty and not
\* manual has exactly one lookup: by the replacement key, with no identifier,
\* when the override table has one for the identifier, otherwise by the
\* identifier with no symbol; the currency passed is the row's, with GBX
\* written GBp.
C13_LookupArguments ==
    \A i \in 1..Len(records) :
        records[i].isin # "" /\ records[i].isin \notin manualIsins =>
            /\ Cardinality(LookupsOf(i)) = 1
            /\ \A k \in LookupsOf(i) :
                  /\ lookups[k].args.currency =
                         (IF RowCurrency(i) = "GBX" THEN "GBp"
                          ELSE RowCurrency(i))
                  /\ IF records[i].isin \in DOMAIN isinOverrides
                     THEN /\ lookups[k].args.symbol =
                                 isinOverrides[records[i].isin]
                          /\ lookups[k].args.isin = Null
                     ELSE /\ lookups[k].args.isin = records[i].isin
                          /\ lookups[k].args.symbol = Null

\* A batch whose first row was looked up by its replacement key and whose
\* second row, in GBX, was looked up by its identifier with GBp.
C13_Witness ==
    /\ Succeeded
    /\ Len(lookups) >= 2
    /\ records[1].isin = "R"
    /\ lookups[1].args = [isin |-> Null, symbol |-> "K", currency |-> "USD"]
    /\ RowCurrency(2) = "GBX"
    /\ lookups[2].args =
           [isin |-> records[2].isin, symbol |-> Null, currency |-> "GBp"]

\* The Activity the row at hand matches in the list as it is before the row
\* is processed, 0 when it reaches no match.
MatchAtHand ==
    IF \/ RowAtHand.currency = ""
       \/ ResolvedSymbol(idx)' = ""
       \/ RowAtHand.description.inLieuOf
       \/ ~HasPrice(RowAtHand)
    THEN 0
    ELSE FindExactDividendMatch(RowAtHand, ResolvedSymbol(idx)', activities)

\* The fee of the row at hand: the tax it states, none on any other row.
TaxAtHand ==
    IF RowAtHand.type = "dividendTax" THEN Abs(RowAtHand.amount) ELSE 0

MergeIntoDividendHalfStep ==
    idx' = idx + 1 /\ MatchAtHand # 0
                   /\ ~activities[MatchAtHand].comment.hasTAX =>
        /\ activities' = [activities EXCEPT ![MatchAtHand].fee = TaxAtHand]
        /\ origin' = origin

\* C14: a row that matches an Activity whose comment is not a tax stub
\* changes the fee of that Activity to the tax of the row and nothing else:
\* no other field of it, no other Activity, and the list keeps its length.
C14_MergeChangesOnlyFee == [][MergeIntoDividendHalfStep]_vars

\* A dividend row, then its tax row: one Activity with the quantity, price
\* and comment of the first row and the tax of the second.
C14_Witness ==
    /\ idx = 2
    /\ IsDividendRow(records[1])
    /\ IsTaxRow(records[2])
    /\ records[2].amount # 0
    /\ Len(activities) = 1
    /\ activities[1].fee = Abs(records[2].amount)
    /\ activities[1].comment = records[1].description
    /\ activities[1].quantity # 0
    /\ activities[1].unitPrice = records[1].description.perShare

\* Row j has a currency column, is not a payment in lieu, and its description
\* has no number before " PER SHARE".
MissingPrice(j) ==
    /\ records[j].currency # ""
    /\ ~records[j].description.inLieuOf
    /\ ~HasPrice(records[j])

\* C15: a row with no per-share price never has an Activity of its own, and
\* once its security is resolved the run is over: the error callback has the
\* TypeError, the success callback is not invoked, no later row has been read
\* or looked up, and the list is what the rows before it made, Activities of
\* earlier rows included.
C15_MissingPriceAborts ==
    \A j \in 1..Len(records) :
        MissingPrice(j) =>
            /\ \A m \in 1..Len(origin) : origin[m] # j
            /\ ResolvedSymbol(j) # "" =>
                  /\ pc = "done"
                  /\ errorCalls = <<"TypeError">>
                  /\ successCalls = <<>>
                  /\ Len(records) = j
                  /\ idx = j - 1
                  /\ \A k \in 1..Len(lookups) : lookups[k].row <= j
                  /\ activities =
                         ProcessRows(SubSeq(records, 1, j - 1)).activities

\* The second of three rows has no price: the run ended there, keeping the
\* Activity of the first row and never reading the third.
C15_Witness ==
    /\ nRecords = 3
    /\ Len(records) = 2
    /\ MissingPrice(2)
    /\ ResolvedSymbol(2) # ""
    /\ Len(activities) = 1
    /\ origin = <<1>>
    /\ errorCalls = <<"TypeError">>

\* In a dividend export a fee other than 0 is the amount of a tax row: it is
\* on the stub the tax row appended or was set by the merge of a tax row.
TaxFeeKeptStep ==
    layout = "dividend" =>
        \A k \in 1..Len(activities) :
            activities[k].fee # 0 => activities'[k].fee # 0

\* C16: the fee an Activity got from a tax row is never set back to 0 by a
\* later row of the batch.
C16_TaxFeeKept == [][TaxFeeKeptStep]_vars

\* The Activity at k was appended by a trade row or by a payment in lieu.
NotOfDividendOrTax(k) ==
    \/ records[origin[k]].currency = ""
    \/ records[origin[k]].description.inLieuOf

\* C17: an Activity appended by a Buy, Sell or payment-in-lieu row is never
\* changed by a later row.
C17_MergeOnlyDividendActivities ==
    [][\A k \in 1..Len(activities) :
           NotOfDividendOrTax(k) => activities'[k] = activities[k]]_vars

\* C18: every Activity of the list, at every point of the run, has one of the
\* types buy, sell and dividend.
C18_TypeInDomain ==
    \A k \in 1..Len(activities) :
        activities[k].type \in {"buy", "sell", "dividend"}

====
